---- MODULE Spec2Model ----
(***************************************************************************)
(* BayesianOptimizationOracle of kerastuner/tuners/bayesian.py as a state  *)
(* machine.  Numbers that are floats in the program (vector coordinates,   *)
(* values of continuous parameters) are fixed-point integers in units of   *)
(* 1/Scale.  Python dicts are kept in insertion order where the code       *)
(* iterates over them (_values), and as functions where it only looks up   *)
(* keys (_score, a configuration).                                         *)
(***************************************************************************)
EXTENDS Integers, Sequences, FiniteSets, TLC

VARIABLES
    space,          \* self.space, as registered by update_space
    init_samples,   \* self.init_samples
    seed,           \* self.seed
    _seed_state,    \* self._seed_state
    _tried_so_far,  \* self._tried_so_far
    _num_trials,    \* self._num_trials
    _score,         \* self._score : trial_id -> score
    _values,        \* self._values : trial_id -> values, in insertion order
    _x,             \* self._x (no rows until _training_data has run)
    _y,             \* self._y
    gpr_fit,        \* rows of the matrix of the last self.gpr.fit call, -1 before
    ret,            \* what the last populate_space call returned
    exc,            \* the exception the last populate_space call raised, or "none"
    path,           \* the branch the last populate_space call took
    calls,          \* populate_space calls made so far
    gen,            \* min_val and min_x at the end of the last _generate_vector
    bootstrap_returned, \* the values returned so far by the first branch
    c_values,       \* codec: the values handed to the encoding step
    c_vector,       \* codec: the vector handed to _convert
    c_decoded,      \* codec: what _convert ended with
    c_pc,           \* codec: how far the encode/decode sequence has come
    th,             \* concurrent callers: the locals of each populate_space
    seed_arg,       \* the seed argument of __init__
    unsupported,    \* the last report_status, save or reload call and how it ended
    mg_trial,       \* the trial the second branch last returned values for
    opt             \* optimizer: the restarts made so far, min_val and min_x

oracle == <<space, init_samples, seed, _seed_state, _tried_so_far, _num_trials,
            _score, _values, _x, _y, gpr_fit>>
lastcall == <<ret, exc, path, calls, gen, bootstrap_returned>>
codec == <<c_values, c_vector, c_decoded, c_pc>>
observed == <<seed_arg, unsupported, opt>>
vars == <<oracle, lastcall, codec, th, observed, mg_trial>>

----------------------------------------------------------------------------
(* Bounds of the model *)

\* vector coordinates and continuous values are multiples of 1/Scale
Scale == 2
\* populate_space calls per behaviour
MaxCalls == 4
\* restarts of the local optimizer that are enumerated (n_restarts in the code)
NRestarts == 2

\* self._max_collisions
max_collisions == 20

\* the trial ids the driver asks configurations for and those it reports a
\* score for, the seeds and the init_samples it configures
TrialIds == {1, 2, 3}
ReportedIds == {1, 2}
Seeds == {1}
InitSamples == {1, 2, 3}
Scores == {3, 5}
\* objective values a restart of the local optimizer may end with; 1 is the
\* initial min_val of _generate_vector
FunVals == {0, 1}

None == [None |-> TRUE]
\* None where a vector is expected (min_x of _generate_vector)
NoVector == <<>>
\* self._x = None, self._y = None: the training data before any was built
NoRows == <<>>
NoReturn == [noreturn |-> TRUE]

----------------------------------------------------------------------------
(* Hyperparameters (engine/hyperparameters.py, known here by their uses) *)

Choice(n, vs) == [kind |-> "Choice", name |-> n, values |-> vs,
                  value |-> 0, min_value |-> 0, max_value |-> 0]
Fixed(n, v) == [kind |-> "Fixed", name |-> n, values |-> <<>>,
                value |-> v, min_value |-> 0, max_value |-> 0]
Range(n, lo, hi) == [kind |-> "Range", name |-> n, values |-> <<>>,
                     value |-> 0, min_value |-> lo, max_value |-> hi]

\* the spaces the driver may declare; a run passes the same space to every
\* populate_space call, so update_space leaves self.space as first registered
Spaces ==
    { <<Fixed("f", 7)>>,
      <<Choice("c", <<10, 20>>), Fixed("f", 7)>>,
      <<Range("r", 0, Scale)>> }

Names(sp) == {sp[i].name : i \in 1..Len(sp)}

\* a deterministic pseudo-random number derived from the seed; it stands for
\* random.Random(seed), of which only determinism is known
Rnd(s) == (s * 5 + (s \div 3)) % 7

\* hp.random_sample(seed)
RandomSample(hp, s) ==
    CASE hp.kind = "Choice" -> hp.values[(Rnd(s) % Len(hp.values)) + 1]
      [] hp.kind = "Fixed" -> hp.value
      [] OTHER -> hp.min_value + (Rnd(s) % (hp.max_value - hp.min_value + 1))

\* self._compute_values_hash(values): canonical, independent of key order
_compute_values_hash(values) == {<<n, values[n]>> : n \in DOMAIN values}

\* the values a parameter admits
Domain(hp) ==
    CASE hp.kind = "Choice" -> {hp.values[i] : i \in 1..Len(hp.values)}
      [] hp.kind = "Fixed" -> {hp.value}
      [] OTHER -> hp.min_value..hp.max_value

----------------------------------------------------------------------------
(* Python helpers *)

\* int(value): truncation toward zero of a fixed-point number
PyInt(v) == IF v >= 0 THEN v \div Scale ELSE -((-v) \div Scale)

\* list.index(value): 0-based position of the first element equal to value
RECURSIVE ListIndexFrom(_, _, _)
ListIndexFrom(vs, v, i) ==
    IF vs[i] = v THEN i - 1 ELSE ListIndexFrom(vs, v, i + 1)

ListIndex(vs, v) == ListIndexFrom(vs, v, 1)

\* whether list[i] is defined for a list of length k
IndexInRange(i, k) == -k <= i /\ i < k

\* list[i], with Python's negative indices
ListGet(vs, i) == IF i >= 0 THEN vs[i + 1] ELSE vs[Len(vs) + i + 1]

\* dict in insertion order: keys, lookup, d[k] = v
Keys(d) == {d[i].id : i \in 1..Len(d)}

Put(d, k, v) ==
    IF k \in Keys(d)
    THEN [i \in 1..Len(d) |-> IF d[i].id = k THEN [id |-> k, v |-> v] ELSE d[i]]
    ELSE Append(d, [id |-> k, v |-> v])

----------------------------------------------------------------------------
(* _new_trial *)

\* position of the parameter called name in the space (_get_hp_index, 1-based)
_get_hp_index(sp, name) == CHOOSE i \in 1..Len(sp) : sp[i].name = name

\* one pass of the for loop: parameter i is sampled with seed state s + i - 1
SampleValues(sp, s) ==
    [n \in Names(sp) |-> RandomSample(sp[_get_hp_index(sp, n)],
                                      s + _get_hp_index(sp, n) - 1)]

AlwaysNew(values_hash, tried) == FALSE

\* values_hash in self._tried_so_far
Collides(values_hash, tried) == values_hash \in tried

BudgetExceededLate(collisions) == collisions > max_collisions + 1

\* collisions > self._max_collisions
BudgetExceeded(collisions) == collisions > max_collisions

RECURSIVE _new_trial(_, _, _, _)
_new_trial(sp, s, tried, collisions) ==
    LET values == SampleValues(sp, s)
        s2 == s + Len(sp)
        values_hash == _compute_values_hash(values)
    IN  IF Collides(values_hash, tried)
        THEN IF BudgetExceeded(collisions + 1)
             THEN [values |-> None, seed_state |-> s2, tried |-> tried,
                   samples |-> collisions + 1]
             ELSE _new_trial(sp, s2, tried, collisions + 1)
        ELSE [values |-> values, seed_state |-> s2,
              tried |-> tried \cup {values_hash}, samples |-> collisions + 1]

----------------------------------------------------------------------------
(* _training_data and _convert *)

\* the numeric coordinate of a value
EncodeValue(hp, value) ==
    CASE hp.kind = "Choice" -> ListIndex(hp.values, value) * Scale
      [] hp.kind = "Fixed" -> 0
      [] OTHER -> value

\* the vector of one trial's values
Encode(sp, values) ==
    [i \in 1..Len(sp) |-> EncodeValue(sp[i], values[sp[i].name])]

\* whether self._score[trial_id] finds a score
HasScore(trial_id, sc) == trial_id \in DOMAIN sc

RECURSIVE TrainingRows(_, _, _, _, _, _)
TrainingRows(sp, vals, sc, i, x, y) ==
    IF i > Len(vals) THEN [exc |-> "none", x |-> x, y |-> y]
    ELSE IF ~HasScore(vals[i].id, sc) THEN [exc |-> "KeyError", x |-> x, y |-> y]
    ELSE IF vals[i].v = None THEN [exc |-> "TypeError", x |-> x, y |-> y]
    ELSE TrainingRows(sp, vals, sc, i + 1,
                      Append(x, Encode(sp, vals[i].v)),
                      Append(y, sc[vals[i].id]))

_training_data(sp, vals, sc) == TrainingRows(sp, vals, sc, 1, <<>>, <<>>)

DecodeValueNoFixed(hp, value) ==
    CASE hp.kind = "Choice" -> ListGet(hp.values, PyInt(value))
      [] OTHER -> value

\* the value of a coordinate
DecodeValue(hp, value) ==
    CASE hp.kind = "Choice" -> ListGet(hp.values, PyInt(value))
      [] hp.kind = "Fixed" -> hp.value
      [] OTHER -> value

\* whether hp.values[int(value)] raises
DecodeRaises(hp, value) ==
    hp.kind = "Choice" /\ ~IndexInRange(PyInt(value), Len(hp.values))

_convert(sp, vector) ==
    IF \E i \in 1..Len(vector) : DecodeRaises(sp[i], vector[i])
    THEN [exc |-> "IndexError", values |-> None]
    ELSE [exc |-> "none",
          values |-> [n \in Names(sp) |->
                        DecodeValue(sp[_get_hp_index(sp, n)],
                                    vector[_get_hp_index(sp, n)])]]

----------------------------------------------------------------------------
(* _generate_vector *)

\* the [low, high] handed to the optimizer for one parameter
Bound(hp) ==
    CASE hp.kind = "Choice" -> <<0, Len(hp.values) * Scale>>
      [] hp.kind = "Fixed" -> <<0, 0>>
      [] OTHER -> <<hp.min_value, hp.max_value>>

\* the coordinates of a dimension that are enumerated: both ends of the
\* bound and the last point below the upper end
OptCoords(b) == {c \in {b[1], b[2] - 1, b[2]} : b[1] <= c /\ c <= b[2]}

\* the points L-BFGS-B may end at: inside the bounds in every dimension
Candidates(sp) ==
    {v \in [1..Len(sp) -> UNION {OptCoords(Bound(sp[i])) : i \in 1..Len(sp)}] :
        \A i \in 1..Len(sp) : v[i] \in OptCoords(Bound(sp[i]))}

\* what one restart of scipy_optimize.minimize may end with
RestartResults(sp) == [x : Candidates(sp), fun : FunVals]

\* the acquisition value at the point of a restart whose objective value is
\* fun: min_obj is the negative of _upper_confidence_bound
AcquisitionOf(fun) == -fun

\* res.fun < min_val
Improves(fun, min_val) == fun < min_val

RECURSIVE Restarts(_, _, _, _)
Restarts(res, i, min_val, min_x) ==
    IF i > Len(res) THEN [min_val |-> min_val, min_x |-> min_x]
    ELSE IF Improves(res[i].fun, min_val)
         THEN Restarts(res, i + 1, res[i].fun, res[i].x)
         ELSE Restarts(res, i + 1, min_val, min_x)

\* min_val and min_x after the loop over the restarts, from min_val = 1
_generate_vector(res) == Restarts(res, 1, 1, NoVector)

----------------------------------------------------------------------------
(* The oracle's operations *)

\* two callers of populate_space, each with its own trial id
Threads == {1, 2}

\* what random.randint(1, 1e4) may give
RandInt == {1, 2}

\* seed or random.randint(1, 1e4): what self.seed may become
SeedOr(arg) == IF arg = 0 THEN RandInt ELSE {arg}

\* the state __init__ leaves, for the seed argument seed_arg
Constructed ==
    /\ init_samples \in InitSamples
    /\ seed \in SeedOr(seed_arg)
    /\ _seed_state = seed
    /\ _tried_so_far = {}
    /\ _num_trials = 0
    /\ _score = <<>>
    /\ _values = <<>>
    /\ _x = NoRows
    /\ _y = NoRows
    /\ gpr_fit = -1

NoCallYet ==
    /\ ret = NoReturn
    /\ exc = "none"
    /\ path = "none"
    /\ calls = 0
    /\ gen = [ran |-> FALSE]
    /\ bootstrap_returned = {}
    /\ c_values = None
    /\ c_vector = NoVector
    /\ c_decoded = [exc |-> "none", values |-> None]
    /\ c_pc = "start"
    /\ th = [t \in Threads |->
               [pc |-> "idle", collisions |-> 0, values |-> <<>>, i |-> 1,
                tmp |-> 0, ret |-> None]]
    /\ unsupported = [op |-> "none", exc |-> "none"]
    /\ mg_trial = [id |-> 0, values |-> None, scored |-> FALSE]
    /\ opt = [res |-> <<>>, min_val |-> 1, min_x |-> NoVector]

Init ==
    /\ space \in Spaces
    /\ seed_arg \in Seeds
    /\ Constructed
    /\ NoCallYet

BootstrapDistinctScores(num_trials, sc) ==
    num_trials < init_samples \/ Cardinality({sc[t] : t \in DOMAIN sc}) < 2

BootstrapOffByOne(num_trials, sc) ==
    num_trials <= init_samples \/ Cardinality(DOMAIN sc) < 2

\* self._num_trials < self.init_samples or len(self._score) < 2
Bootstrap(num_trials, sc) ==
    num_trials < init_samples \/ Cardinality(DOMAIN sc) < 2

\* what _generate_vector may end with, over all that the restarts may end with
GenerateOutcomes(sp) ==
    {_generate_vector(res) : res \in [1..NRestarts -> RestartResults(sp)]}

\* populate_space, the branch taken before the Gaussian process is trained
PopulateBootstrap(trial_id) ==
    /\ calls < MaxCalls
    /\ Bootstrap(_num_trials, _score)
    /\ LET t == _new_trial(space, _seed_state, _tried_so_far, 0)
       IN  /\ _num_trials' = _num_trials + 1
           /\ _seed_state' = t.seed_state
           /\ _tried_so_far' = t.tried
           /\ _values' = Put(_values, trial_id, t.values)
           /\ ret' = [status |-> "RUN", values |-> t.values]
           /\ bootstrap_returned' =
                 IF t.values = None THEN bootstrap_returned
                 ELSE bootstrap_returned \cup {t.values}
    /\ exc' = "none"
    /\ path' = "Bootstrap"
    /\ calls' = calls + 1
    /\ UNCHANGED <<space, init_samples, seed, _score, _x, _y, gpr_fit, gen,
                   codec, th,
                   observed, mg_trial>>

\* populate_space, the branch that trains the Gaussian process
PopulateModelGuided(trial_id) ==
    /\ calls < MaxCalls
    /\ ~Bootstrap(_num_trials, _score)
    /\ LET td == _training_data(space, _values, _score)
       IN  IF td.exc # "none"
           THEN /\ exc' = td.exc
                /\ ret' = NoReturn
                /\ UNCHANGED <<_x, _y, gpr_fit, gen, mg_trial>>
           ELSE /\ _x' = td.x
                /\ _y' = td.y
                /\ gpr_fit' = Len(td.x)
                /\ \E g \in GenerateOutcomes(space) :
                      LET cv == _convert(space, g.min_x)
                      IN  /\ gen' = [ran |-> TRUE, min_val |-> g.min_val,
                                     min_x |-> g.min_x]
                          /\ IF g.min_x = NoVector
                             THEN exc' = "AttributeError" /\ ret' = NoReturn
                             ELSE IF cv.exc # "none"
                                  THEN exc' = cv.exc /\ ret' = NoReturn
                                  ELSE exc' = "none" /\ ret' = cv.values
                          /\ mg_trial' =
                                IF g.min_x = NoVector \/ cv.exc # "none"
                                THEN mg_trial
                                ELSE [id |-> trial_id, values |-> cv.values,
                                      scored |-> FALSE]
    /\ path' = "ModelGuided"
    /\ calls' = calls + 1
    /\ UNCHANGED <<space, init_samples, seed, _seed_state, _tried_so_far,
                   _num_trials, _score, _values, bootstrap_returned, codec, th,
                   observed>>

ScoreSetAlone(sc, trial_id, score) == [t \in {trial_id} |-> score]

\* self._score[trial_id] = score
ScoreSet(sc, trial_id, score) ==
    [t \in DOMAIN sc \cup {trial_id} |-> IF t = trial_id THEN score ELSE sc[t]]

\* result
Result(trial_id, score) ==
    /\ _score' = ScoreSet(_score, trial_id, score)
    /\ _score' # _score
    /\ mg_trial' = IF mg_trial.id = trial_id
                   THEN [mg_trial EXCEPT !.scored = TRUE] ELSE mg_trial
    /\ UNCHANGED <<space, init_samples, seed, _seed_state, _tried_so_far,
                   _num_trials, _values, _x, _y, gpr_fit, lastcall, codec, th,
                   observed>>

Next ==
    \/ \E trial_id \in TrialIds : PopulateBootstrap(trial_id)
    \/ \E trial_id \in TrialIds : PopulateModelGuided(trial_id)
    \/ \E trial_id \in ReportedIds : \E score \in Scores : Result(trial_id, score)

Spec == Init /\ [][Next]_vars

----------------------------------------------------------------------------
(* The operations the class leaves unimplemented *)

SilentlyDone(op) == [op |-> op, exc |-> "none"]

\* raise NotImplementedError
Unimplemented(op) == [op |-> op, exc |-> "NotImplementedError"]

\* report_status
ReportStatus(trial_id, status) ==
    /\ unsupported' = Unimplemented("report_status")
    /\ UNCHANGED <<oracle, lastcall, codec, th, seed_arg, mg_trial, opt>>

\* save
Save(fname) ==
    /\ unsupported' = Unimplemented("save")
    /\ UNCHANGED <<oracle, lastcall, codec, th, seed_arg, mg_trial, opt>>

\* reload
Reload(fname) ==
    /\ unsupported' = Unimplemented("reload")
    /\ UNCHANGED <<oracle, lastcall, codec, th, seed_arg, mg_trial, opt>>

NextOps ==
    \/ Next
    \/ \E trial_id \in TrialIds : \E status \in {"RUN", "STOPPED"} :
          ReportStatus(trial_id, status)
    \/ \E fname \in {"oracle.json"} : Save(fname)
    \/ \E fname \in {"oracle.json"} : Reload(fname)

SpecOps == Init /\ [][NextOps]_vars

----------------------------------------------------------------------------
(* _generate_vector alone, one restart of the local optimizer at a time *)

\* one turn of the loop over the restarts: r is what minimize ended with
GenerateRestart(r) ==
    /\ Len(opt.res) < NRestarts
    /\ opt' = [res |-> Append(opt.res, r),
               min_val |-> Restarts(<<r>>, 1, opt.min_val, opt.min_x).min_val,
               min_x |-> Restarts(<<r>>, 1, opt.min_val, opt.min_x).min_x]
    /\ UNCHANGED <<oracle, lastcall, codec, th, seed_arg, unsupported, mg_trial>>

NextGen == \E r \in RestartResults(space) : GenerateRestart(r)

SpecGen == Init /\ [][NextGen]_vars

----------------------------------------------------------------------------
(* The oracle built with any seed argument, 0 included *)

SeedArgs == {0} \cup Seeds

InitSeed ==
    /\ space \in Spaces
    /\ seed_arg \in SeedArgs
    /\ Constructed
    /\ NoCallYet

SpecSeed == InitSeed /\ [][Next]_vars

----------------------------------------------------------------------------
(* The codec on its own: the encoding step of _training_data and _convert *)
(* applied to every valid configuration and every vector within bounds   *)

CodecSpaces ==
    Spaces \cup
    { <<Choice("c", <<10, 20, 30>>), Fixed("f", 7), Range("r", 0, Scale)>> }

\* the configurations valid under a space
ValidValues(sp) ==
    {c \in [Names(sp) -> UNION {Domain(sp[i]) : i \in 1..Len(sp)}] :
        \A i \in 1..Len(sp) : c[sp[i].name] \in Domain(sp[i])}

\* the vectors within the bounds handed to the optimizer
WithinBounds(sp) ==
    {v \in [1..Len(sp) ->
              UNION {Bound(sp[i])[1]..Bound(sp[i])[2] : i \in 1..Len(sp)}] :
        \A i \in 1..Len(sp) :
            Bound(sp[i])[1] <= v[i] /\ v[i] <= Bound(sp[i])[2]}

\* coordinates a caller may supply at a Fixed position
AnyCoords == (-1)..Scale

InitCodec ==
    /\ space \in CodecSpaces
    /\ seed_arg \in Seeds
    /\ Constructed
    /\ NoCallYet

\* the encoding step of _training_data on values c
CodecEncode(c) ==
    /\ c_pc = "start"
    /\ c_values' = c
    /\ c_vector' = Encode(space, c)
    /\ c_pc' = "encoded"
    /\ UNCHANGED <<oracle, lastcall, c_decoded, th,
                   observed, mg_trial>>

\* another coordinate is put at a Fixed position of the encoded vector
CodecSupplyFixed(i, k) ==
    /\ c_pc = "encoded"
    /\ space[i].kind = "Fixed"
    /\ c_vector[i] # k
    /\ c_vector' = [c_vector EXCEPT ![i] = k]
    /\ UNCHANGED <<oracle, lastcall, c_values, c_decoded, c_pc, th,
                   observed, mg_trial>>

\* a vector within the optimizer's bounds is handed to _convert
CodecSupply(v) ==
    /\ c_pc = "start"
    /\ c_vector' = v
    /\ c_pc' = "supplied"
    /\ UNCHANGED <<oracle, lastcall, c_values, c_decoded, th,
                   observed, mg_trial>>

\* _convert
CodecDecode ==
    /\ c_pc \in {"encoded", "supplied"}
    /\ c_decoded' = _convert(space, c_vector)
    /\ c_pc' = IF c_pc = "encoded" THEN "roundtrip" ELSE "decoded"
    /\ UNCHANGED <<oracle, lastcall, c_values, c_vector, th,
                   observed, mg_trial>>

NextCodec ==
    \/ \E c \in ValidValues(space) : CodecEncode(c)
    \/ \E i \in 1..Len(space) : \E k \in AnyCoords : CodecSupplyFixed(i, k)
    \/ \E v \in WithinBounds(space) : CodecSupply(v)
    \/ CodecDecode

SpecCodec == InitCodec /\ [][NextCodec]_vars

----------------------------------------------------------------------------
(* Two populate_space calls on the first branch running concurrently.  The *)
(* class takes no lock, so the reads and writes of self._seed_state,       *)
(* self._tried_so_far and self._values of the two callers interleave.      *)
(* Caller t proposes for trial id t.                                       *)

\* lines 52-53 and 89-92: the guard, the proposal counter, a fresh loop pass
ConcEnter(t) ==
    /\ th[t].pc = "idle"
    /\ Bootstrap(_num_trials, _score)
    /\ _num_trials' = _num_trials + 1
    /\ th' = [th EXCEPT ![t] = [@ EXCEPT !.pc = "sample", !.collisions = 0,
                                         !.values = <<>>, !.i = 1]]
    /\ UNCHANGED <<space, init_samples, seed, _seed_state, _tried_so_far,
                   _score, _values, _x, _y, gpr_fit, lastcall, codec,
                   observed, mg_trial>>

\* line 94: values[p.name] = p.random_sample(self._seed_state)
ConcSample(t) ==
    /\ th[t].pc = "sample"
    /\ th[t].i <= Len(space)
    /\ LET hp == space[th[t].i]
           old == th[t].values
       IN  th' = [th EXCEPT ![t] =
                    [@ EXCEPT !.pc = "load",
                              !.values =
                                 [n \in DOMAIN old \cup {hp.name} |->
                                    IF n = hp.name
                                    THEN RandomSample(hp, _seed_state)
                                    ELSE old[n]]]]
    /\ UNCHANGED <<oracle, lastcall, codec,
                   observed, mg_trial>>

\* line 95, first half: the read of self._seed_state += 1
ConcLoadSeed(t) ==
    /\ th[t].pc = "load"
    /\ th' = [th EXCEPT ![t] = [@ EXCEPT !.pc = "store", !.tmp = _seed_state]]
    /\ UNCHANGED <<oracle, lastcall, codec,
                   observed, mg_trial>>

\* line 95, second half: the write of self._seed_state += 1
ConcStoreSeed(t) ==
    /\ th[t].pc = "store"
    /\ _seed_state' = th[t].tmp + 1
    /\ th' = [th EXCEPT ![t] = [@ EXCEPT !.pc = "sample", !.i = @ + 1]]
    /\ UNCHANGED <<space, init_samples, seed, _tried_so_far, _num_trials,
                   _score, _values, _x, _y, gpr_fit, lastcall, codec,
                   observed, mg_trial>>

\* lines 98-103: the hash is in the tried set
ConcCollision(t) ==
    /\ th[t].pc = "sample"
    /\ th[t].i > Len(space)
    /\ Collides(_compute_values_hash(th[t].values), _tried_so_far)
    /\ th' = [th EXCEPT ![t] =
                IF BudgetExceeded(@.collisions + 1)
                THEN [@ EXCEPT !.pc = "assign", !.collisions = @ + 1,
                               !.ret = None]
                ELSE [@ EXCEPT !.pc = "sample", !.collisions = @ + 1,
                               !.values = <<>>, !.i = 1]]
    /\ UNCHANGED <<oracle, lastcall, codec,
                   observed, mg_trial>>

\* line 99: the hash is not in the tried set
ConcNoCollision(t) ==
    /\ th[t].pc = "sample"
    /\ th[t].i > Len(space)
    /\ ~Collides(_compute_values_hash(th[t].values), _tried_so_far)
    /\ th' = [th EXCEPT ![t] = [@ EXCEPT !.pc = "add"]]
    /\ UNCHANGED <<oracle, lastcall, codec,
                   observed, mg_trial>>

\* lines 104-106: self._tried_so_far.add(values_hash); return values
ConcAdd(t) ==
    /\ th[t].pc = "add"
    /\ _tried_so_far' =
          _tried_so_far \cup {_compute_values_hash(th[t].values)}
    /\ th' = [th EXCEPT ![t] = [@ EXCEPT !.pc = "assign",
                                         !.ret = th[t].values]]
    /\ UNCHANGED <<space, init_samples, seed, _seed_state, _num_trials,
                   _score, _values, _x, _y, gpr_fit, lastcall, codec,
                   observed, mg_trial>>

\* lines 55-56: self._values[trial_id] = values; return
ConcReturn(t) ==
    /\ th[t].pc = "assign"
    /\ _values' = Put(_values, t, th[t].ret)
    /\ th' = [th EXCEPT ![t] = [@ EXCEPT !.pc = "done"]]
    /\ UNCHANGED <<space, init_samples, seed, _seed_state, _tried_so_far,
                   _num_trials, _score, _x, _y, gpr_fit, lastcall, codec,
                   observed, mg_trial>>

NextConc ==
    \E t \in Threads :
        \/ ConcEnter(t)
        \/ ConcSample(t)
        \/ ConcLoadSeed(t)
        \/ ConcStoreSeed(t)
        \/ ConcCollision(t)
        \/ ConcNoCollision(t)
        \/ ConcAdd(t)
        \/ ConcReturn(t)

SpecConc == Init /\ [][NextConc]_vars

----------------------------------------------------------------------------
(* Claims about the sequential oracle, checked under Spec *)

\* a populate_space call has just been made
Called == calls' = calls + 1

\* C1: a configuration returned by the first (Bootstrap) branch of
\* populate_space was never returned by that branch before and its hash
\* was not in the tried set before the call; a call that finds no unique
\* configuration within the retry budget returns no configuration.
C1_BootstrapUnique ==
    [][(Called /\ path' = "Bootstrap") =>
         \/ ret'.values = None
         \/ /\ ret'.values \notin bootstrap_returned
            /\ _compute_values_hash(ret'.values) \notin _tried_so_far]_vars

\* the budget ran out after two different configurations had been returned
C1_Witness ==
    /\ path = "Bootstrap"
    /\ ret.values = None
    /\ Cardinality(bootstrap_returned) >= 2

\* C2: a Bootstrap call that exceeds the collision budget reports status
\* STOPPED, never RUN with an absent configuration.
C2_BudgetExceededStops ==
    (path = "Bootstrap" /\ ret.values = None) => ret.status = "STOPPED"

\* C3: every populate_space call that returns, on either branch, returns a
\* record with a status of RUN or STOPPED and a values field, and with RUN
\* the values hold exactly one entry per parameter of the space.
C3_ReturnsStatusRecord ==
    (calls > 0 /\ exc = "none") =>
        /\ {"status", "values"} \subseteq DOMAIN ret
        /\ ret.status \in {"RUN", "STOPPED"}
        /\ ret.status = "RUN" =>
              (ret.values # None /\ DOMAIN ret.values = Names(space))

\* C4: once a populate_space call has taken the ModelGuided branch, every
\* later call takes it too.
C4_OneDirectional ==
    [][path = "ModelGuided" => path' = "ModelGuided"]_vars

\* the ModelGuided branch has served two calls
C4_Witness == path = "ModelGuided" /\ calls >= _num_trials + 2

\* C5: populate_space takes the Bootstrap branch whenever fewer than
\* init_samples trials are scored or fewer than 2 distinct trials are scored.
C5_BootstrapUntilScored ==
    [][(Called /\ (Cardinality(DOMAIN _score) < init_samples
                   \/ Cardinality(DOMAIN _score) < 2))
         => path' = "Bootstrap"]_vars

\* C6: with init_samples = 2, after two calls with distinct trial ids have
\* each returned a configuration and both trials are scored, the next call
\* takes the ModelGuided branch and the surrogate is fitted on a matrix of
\* at least 2 rows.
C6_ModelGuidedAfterTwoScored ==
    [][(/\ Called
        /\ init_samples = 2
        /\ calls = 2
        /\ path = "Bootstrap"
        /\ Len(_values) = 2
        /\ \A i \in 1..Len(_values) :
              _values[i].v # None /\ _values[i].id \in DOMAIN _score)
         => (path' = "ModelGuided" /\ gpr_fit' >= 2)]_vars

\* the third call of such a run, fitted on two rows
C6_Witness ==
    /\ init_samples = 2
    /\ calls = 3
    /\ _num_trials = 2
    /\ Len(_values) = 2
    /\ path = "ModelGuided"
    /\ gpr_fit = 2

\* C10: when no restart of the optimizer ends below the initial min_val,
\* the ModelGuided call reports status STOPPED and does not raise.
C10_NoImprovementStops ==
    (path = "ModelGuided" /\ gen.ran /\ gen.min_x = NoVector) =>
        /\ exc = "none"
        /\ "status" \in DOMAIN ret
        /\ ret.status = "STOPPED"

----------------------------------------------------------------------------
(* Claims about the codec, checked under SpecCodec *)

\* C8: decoding the vector that the encoding step of _training_data makes
\* of a valid configuration gives the configuration back, whatever
\* coordinate stands at a Fixed position.
C8_RoundTrip ==
    c_pc = "roundtrip" =>
        (c_decoded.exc = "none" /\ c_decoded.values = c_values)

\* a round trip through a space of all three kinds, with a Choice value that
\* is not the first and a foreign coordinate at the Fixed position
C8_Witness ==
    /\ c_pc = "roundtrip"
    /\ Len(space) = 3
    /\ c_values["c"] = 30
    /\ c_values["r"] = 1
    /\ c_vector[2] # 0

\* C9: _convert never raises for a vector within the bounds that
\* _generate_vector hands to the optimizer, and a Choice coordinate decodes
\* to one of the declared values.
C9_DecodeWithinBounds ==
    c_pc = "decoded" =>
        /\ c_decoded.exc = "none"
        /\ \A i \in 1..Len(space) :
              c_decoded.values[space[i].name] \in
                 (IF space[i].kind = "Range"
                  THEN {c_vector[i]} ELSE Domain(space[i]))

----------------------------------------------------------------------------
(* Claims about concurrent callers, checked under SpecConc *)

\* C7: two populate_space calls running concurrently on the Bootstrap
\* branch never return identical configurations.
C7_ConcurrentDistinct ==
    (/\ \A t \in Threads : th[t].pc = "done"
     /\ \A t \in Threads : th[t].ret # None)
        => \A t, u \in Threads : t # u => th[t].ret # th[u].ret

----------------------------------------------------------------------------
(* Claims about result and the bookkeeping of populate_space, under Spec *)

\* C11: result(trial_id, score) only sets the score of trial_id: the other
\* scores stay, a second score for the same trial replaces the first
\* without changing the number of scored trials, and the tried set, the
\* recorded configurations, the proposal counter and the seed counter are
\* left as they were.
C11_ResultBookkeepingOnly ==
    [][_score' # _score =>
         /\ \E t \in TrialIds :
               /\ DOMAIN _score' = DOMAIN _score \cup {t}
               /\ _score'[t] \in Scores
               /\ \A u \in DOMAIN _score \ {t} : _score'[u] = _score[u]
         /\ UNCHANGED <<_tried_so_far, _values, _num_trials, _seed_state>>]_vars

\* trial 1 was given another score after the surrogate was fitted on its
\* first one, with two trials scored before and after
C11_Witness ==
    /\ gpr_fit = 2
    /\ _values[1].id = 1
    /\ _y[1] # _score[1]
    /\ Cardinality(DOMAIN _score) = 2


\* C12: report_status, save and reload end in NotImplementedError on every
\* call, and the oracle's state and the last populate_space outcome are after
\* the failed call what they were before it.
C12_UnsupportedFailLoudly ==
    [][unsupported' # unsupported =>
          /\ unsupported'.op \in {"report_status", "save", "reload"}
          /\ unsupported'.exc = "NotImplementedError"
          /\ UNCHANGED <<oracle, lastcall>>]_vars

C12_Witness ==
    /\ unsupported = Unimplemented("save")
    /\ Cardinality(_tried_so_far) >= 1
    /\ DOMAIN _score # {}
    /\ path = "ModelGuided"


\* C13: whenever populate_space takes the ModelGuided path and builds its
\* training data, the data has at least 2 rows.
C13_AtLeastTwoRows ==
    [][(/\ Called
        /\ path' = "ModelGuided"
        /\ _training_data(space, _values, _score).exc = "none")
          => Len(_x') >= 2]_vars

\* C14: a proposed trial without a score is left out of the training data and
\* never makes populate_space fail: on the ModelGuided path the score lookup
\* of _training_data does not end in KeyError.
C14_UnscoredLeftOut ==
    [][(Called /\ path' = "ModelGuided") =>
          _training_data(space, _values, _score).exc # "KeyError"]_vars


\* C15: a trial whose configuration came from the ModelGuided path and that
\* was scored afterwards has its (vector, score) row in the training data
\* that every later ModelGuided call builds.
C15_ScoredTrialInHistory ==
    [][(/\ Called
        /\ path' = "ModelGuided"
        /\ mg_trial.scored
        /\ _training_data(space, _values, _score).exc = "none")
          => \E i \in 1..Len(_x') :
                /\ _x'[i] = Encode(space, mg_trial.values)
                /\ _y'[i] = _score[mg_trial.id]]_vars


\* C16: the tried set never loses an entry, and it holds the hash of every
\* configuration populate_space returns, on the Bootstrap path and on the
\* ModelGuided path alike.
C16_ReturnedIsTried ==
    [][/\ _tried_so_far \subseteq _tried_so_far'
       /\ (Called /\ path' = "Bootstrap" /\ ret'.values # None) =>
             _compute_values_hash(ret'.values) \in _tried_so_far'
       /\ (Called /\ path' = "ModelGuided" /\ exc' = "none") =>
             _compute_values_hash(ret') \in _tried_so_far']_vars


\* C17: among the results of all restarts, the vector _generate_vector
\* returns is one whose value of mean - beta * std_dev is the lowest: no
\* restart ended at a point with a strictly lower value.
C17_ReturnsLowestAcquisition ==
    (Len(opt.res) = NRestarts /\ opt.min_x # NoVector) =>
        \A i \in 1..Len(opt.res) :
            ~(AcquisitionOf(opt.res[i].fun) < AcquisitionOf(opt.min_val))


\* the sampling attempts of one _new_trial call: every attempt advances the
\* seed counter once per parameter of the space
Attempts(before, after) == (after - before) \div Len(space)

\* C18: a Bootstrap populate_space call makes between 1 and
\* max_collisions + 1 sampling attempts; it ends without a configuration only
\* after max_collisions + 1 attempts that all collided, and otherwise with a
\* configuration whose hash was not in the tried set.
C18_BoundedSampling ==
    [][(Called /\ path' = "Bootstrap") =>
          /\ Attempts(_seed_state, _seed_state') >= 1
          /\ Attempts(_seed_state, _seed_state') <= max_collisions + 1
          /\ ret'.values = None =>
                /\ Attempts(_seed_state, _seed_state') = max_collisions + 1
                /\ _tried_so_far' = _tried_so_far
          /\ ret'.values # None =>
                /\ _compute_values_hash(ret'.values) \notin _tried_so_far
                /\ _tried_so_far' =
                      _tried_so_far \cup {_compute_values_hash(ret'.values)}]_vars

\* every configuration of the space was tried by the first call, and the
\* second call gave up after max_collisions + 1 attempts
C18_Witness ==
    /\ calls = 2
    /\ path = "Bootstrap"
    /\ ret.values = None
    /\ Cardinality(_tried_so_far) = 1
    /\ _seed_state = seed + (max_collisions + 2) * Len(space)


\* C19: a Bootstrap populate_space call that finds no configuration records
\* nothing for trial_id and does not advance the proposal counter.
C19_FailedCallRecordsNothing ==
    [][(Called /\ path' = "Bootstrap" /\ ret'.values = None) =>
          UNCHANGED <<_values, _num_trials>>]_vars


\* C20: the seed counter starts at the configured integer seed and never
\* falls below it, and the configuration of the first Bootstrap call is the
\* one that sampling from the configured seed gives, whichever oracle was
\* built with that seed.
C20_SeedReproducible ==
    /\ calls = 0 => _seed_state = seed_arg
    /\ _seed_state >= seed_arg
    /\ (calls = 1 /\ path = "Bootstrap") =>
          ret.values = _new_trial(space, seed_arg, {}, 0).values

====
